---- MODULE Spec2Model ----
(***************************************************************************)
(* Elliptic-curve arithmetic over Z/pZ (p possibly composite), Pollard's   *)
(* rho and Lenstra's ECM, as implemented in src/main.py.                   *)
(*                                                                         *)
(* Python exceptions are modelled as result records: every operation that  *)
(* can raise returns [type, val, arg, msg, at]; type = "ok" is a normal    *)
(* return of val, any other type is the class of the raised exception.     *)
(***************************************************************************)
EXTENDS Integers, Sequences, FiniteSets, TLC

VARIABLES
    pc,       \* position of the running code
    lenstra,  \* frame of Lenstra: arguments, loop counters and locals
    mul,      \* frame of Point.__mul__: self, scalar, result, current
    call,     \* operands and outcome of the latest Point.__add__ call
    exc,      \* the exception in flight, if any
    ret,      \* the value returned by Lenstra or pollardRho
    harness,  \* operands and outcomes of a direct call of __add__ / __mul__
    rho       \* frame of pollardRho: n, A, B, p

vars == <<pc, lenstra, mul, call, exc, ret, harness, rho>>

(* ---------------------------- bounds ----------------------------------- *)
MaxN == 9          \* Lenstra: n ranges over 2..MaxN
MaxB == 3          \* Lenstra: B ranges over 1..MaxB
MaxAttempts == 2   \* Lenstra: attempts ranges over 0..MaxAttempts
MaxMod == 6        \* scalar multiplication: curve moduli 2..MaxMod
MaxK == 20         \* scalar multiplication: scalars -MaxK..MaxK
MaxPrime == 7      \* group law: prime moduli 2..MaxPrime
MaxMismatch == 3   \* curve mismatch: curve moduli 2..MaxMismatch
MaxRhoN == 24      \* pollardRho: n ranges over 2..MaxRhoN

(* ------------------------ integers and strings ------------------------- *)
Abs(v) == IF v < 0 THEN -v ELSE v

RECURSIVE Euclid(_, _)
Euclid(u, v) == IF v = 0 THEN u ELSE Euclid(v, u % v)

\* mutant of gcd: the denominator itself is taken for the common divisor
gcd_useDen(u, v) == Abs(u)

\* math.gcd: non-negative greatest common divisor of two integers
gcd(u, v) == Euclid(Abs(u), Abs(v))

\* pow(den, -1, p) succeeds exactly when some v in [0, p) has den*v = 1 (mod p)
Invertible(den, p) == \E v \in 0..(p - 1) : (den * v) % p = 1

\* pow(den, -1, p) when it succeeds
PowInv(den, p) == CHOOSE v \in 0..(p - 1) : (den * v) % p = 1

DigitChars == <<"0", "1", "2", "3", "4", "5", "6", "7", "8", "9">>

RECURSIVE StrNat(_)
StrNat(v) == IF v < 10 THEN <<DigitChars[v + 1]>>
             ELSE StrNat(v \div 10) \o <<DigitChars[(v % 10) + 1]>>

\* str(v) of an int, as a sequence of characters
Str(v) == IF v < 0 THEN <<"-">> \o StrNat(-v) ELSE StrNat(v)

RECURSIVE SkipSpaces(_)
SkipSpaces(s) == IF s # <<>> /\ Head(s) = " " THEN SkipSpaces(Tail(s)) ELSE s

RECURSIVE TakeToken(_)
TakeToken(s) == IF s = <<>> \/ Head(s) = " " THEN <<>>
                ELSE <<Head(s)>> \o TakeToken(Tail(s))

\* s.split()[0]: the first whitespace-separated token of s
SplitFirst(s) == TakeToken(SkipSpaces(s))

DigitVal(ch) == (CHOOSE d \in 1..10 : DigitChars[d] = ch) - 1

RECURSIVE IntNat(_)
IntNat(s) == IF s = <<>> THEN 0
             ELSE 10 * IntNat(SubSeq(s, 1, Len(s) - 1)) + DigitVal(s[Len(s)])

\* int(s) of a decimal token
Int_(s) == IF s # <<>> /\ Head(s) = "-" THEN -IntNat(Tail(s)) ELSE IntNat(s)

(* ----------------------- results and exceptions ------------------------ *)
NoCurve == [a |-> 0, b |-> 0, p |-> 1]
NoPoint == [curve |-> NoCurve, inf |-> TRUE, x |-> 0, y |-> 0]
NoExc == [type |-> "ok", val |-> NoPoint, arg |-> 0, msg |-> "", at |-> ""]

Ok(v) == [type |-> "ok", val |-> v, arg |-> 0, msg |-> "", at |-> ""]
Raise(t, d, m) == [type |-> t, val |-> NoPoint, arg |-> d, msg |-> m, at |-> ""]
Raised(r) == r.type # "ok"

(* ------------------------------ curves --------------------------------- *)
\* EllipticCurve.__init__: the discriminant test on the raw a, b
EllipticCurve(a, b, p) ==
    LET disc == (4 * (a * a * a) + 27 * (b * b)) % p
    IN  IF disc = 0
        THEN [type |-> "ValueError", val |-> NoCurve, arg |-> 0,
              msg |-> "La curva es singular", at |-> ""]
        ELSE [type |-> "ok", val |-> [a |-> a, b |-> b, p |-> p], arg |-> 0,
              msg |-> "", at |-> ""]

NotOnCurveMsg == "El punto no esta en la curva"

(* ------------------------------ points --------------------------------- *)
\* Point._is_on_curve
IsOnCurve(pt) ==
    IF pt.inf THEN TRUE
    ELSE LET p == pt.curve.p
             x == pt.x % p
             y == pt.y % p
             left == (y * y) % p
             right == (((x * x * x) % p) + ((pt.curve.a * x) % p) + pt.curve.b) % p
         IN  left = right

\* Point(curve): the point at infinity
Infinity(curve) == [curve |-> curve, inf |-> TRUE, x |-> 0, y |-> 0]

\* Point(curve, x, y): membership is checked eagerly
Point(curve, x, y) ==
    LET pt == [curve |-> curve, inf |-> FALSE, x |-> x, y |-> y]
    IN  IF IsOnCurve(pt) THEN Ok(pt)
        ELSE Raise("ValueError", 0, NotOnCurveMsg)

\* Point.__eq__
Eq(self, other) ==
    IF self.inf \/ other.inf THEN self.inf /\ other.inf
    ELSE /\ self.curve.a = other.curve.a
         /\ self.curve.b = other.curve.b
         /\ self.curve.p = other.curve.p
         /\ self.x % self.curve.p = other.x % self.curve.p
         /\ self.y % self.curve.p = other.y % self.curve.p

\* Point.__neg__
Neg(self) ==
    IF self.inf THEN Ok(self)
    ELSE Point(self.curve, self.x, (-self.y) % self.curve.p)

\* mutant of Third: the other sign convention, y3 = y1 + slope * (x3 - x1)
Third_otherSign(self, other, slope) ==
    LET p == self.curve.p
        x3 == (((slope * slope) % p) - self.x - other.x) % p
        y3 == (self.y + slope * (x3 - self.x)) % p
    IN  Point(self.curve, x3, y3)

\* mutant of Third: x3 computed without subtracting other.x
Third_dropX2(self, other, slope) ==
    LET p == self.curve.p
        x3 == (((slope * slope) % p) - self.x) % p
        y3 == (-self.y + slope * (self.x - x3)) % p
    IN  Point(self.curve, x3, y3)

\* lines 106-109 of Point.__add__: the third point from the slope
Third(self, other, slope) ==
    LET p == self.curve.p
        x3 == (((slope * slope) % p) - self.x - other.x) % p
        y3 == (-self.y + slope * (self.x - x3)) % p
    IN  Point(self.curve, x3, y3)

\* mutant of Tangent: the exception carries y instead of the denominator 2y
Tangent_wrongArg(self, other) ==
    LET p == self.curve.p
        num == (3 * ((self.x * self.x) % p) + self.curve.a) % p
        den == (2 * self.y) % p
    IN  IF self.y = 0 THEN Ok(Infinity(self.curve))
        ELSE IF den = 0 THEN Raise("ZeroDivisionError", self.y, "")
        ELSE IF ~Invertible(den, p) THEN Raise("ZeroDivisionError", self.y, "")
        ELSE Third(self, other, (num * PowInv(den, p)) % p)

\* lines 85-95 of Point.__add__: the tangent case
Tangent(self, other) ==
    LET p == self.curve.p
        num == (3 * ((self.x * self.x) % p) + self.curve.a) % p
        den == (2 * self.y) % p
    IN  IF self.y = 0 THEN Ok(Infinity(self.curve))
        ELSE IF den = 0 THEN Raise("ZeroDivisionError", den, "")
        ELSE IF ~Invertible(den, p) THEN Raise("ZeroDivisionError", den, "")
        ELSE Third(self, other, (num * PowInv(den, p)) % p)

\* lines 96-104 of Point.__add__: the chord case
Chord(self, other) ==
    LET p == self.curve.p
        num == (other.y - self.y) % p
        den == (other.x - self.x) % p
    IN  IF den = 0 THEN Raise("ZeroDivisionError", den, "")
        ELSE IF ~Invertible(den, p) THEN Raise("ZeroDivisionError", den, "")
        ELSE Third(self, other, (num * PowInv(den, p)) % p)

\* Point.__add__
Add(self, other) ==
    IF self.curve.p # other.curve.p
    THEN Raise("TypeError", 0, "Los puntos deben pertenecer a la misma curva")
    ELSE IF self.inf THEN Ok(other)
    ELSE IF other.inf THEN Ok(self)
    ELSE LET negOther == Neg(other)
         IN  IF Raised(negOther) THEN negOther
             ELSE IF Eq(self, negOther.val) THEN Ok(Infinity(self.curve))
             ELSE IF Eq(self, other) THEN Tangent(self, other)
             ELSE Chord(self, other)

(* ----------------------- Point.__mul__ (frames) ------------------------ *)
NoMul == [self |-> NoPoint, scalar |-> 0, result |-> NoPoint,
          current |-> NoPoint, caller |-> ""]
NoCall == [self |-> NoPoint, other |-> NoPoint, out |-> NoExc]

\* mutant of MulEnter: a negative scalar is made positive without negating
\* the point
MulEnter_noNegate(self, scalar) ==
    IF scalar = 0
    THEN [done |-> TRUE, out |-> Ok(Infinity(self.curve)), frame |-> NoMul]
    ELSE IF self.inf
    THEN [done |-> TRUE, out |-> Ok(self), frame |-> NoMul]
    ELSE [done |-> FALSE, out |-> NoExc,
          frame |-> [self |-> self, scalar |-> Abs(scalar),
                     result |-> Infinity(self.curve), current |-> self,
                     caller |-> ""]]

\* lines 124-133 of Point.__mul__: the special cases return at once (done),
\* a negative scalar recurses once on the negated point, otherwise the
\* double-and-add loop starts with result = infinity and current = self.
RECURSIVE MulEnter(_, _)
MulEnter(self, scalar) ==
    IF scalar < 0
    THEN LET negSelf == Neg(self)
         IN  IF Raised(negSelf) THEN [done |-> TRUE, out |-> negSelf, frame |-> NoMul]
             ELSE MulEnter(negSelf.val, -scalar)
    ELSE IF scalar = 0
    THEN [done |-> TRUE, out |-> Ok(Infinity(self.curve)), frame |-> NoMul]
    ELSE IF self.inf
    THEN [done |-> TRUE, out |-> Ok(self), frame |-> NoMul]
    ELSE [done |-> FALSE, out |-> NoExc,
          frame |-> [self |-> self, scalar |-> scalar,
                     result |-> Infinity(self.curve), current |-> self,
                     caller |-> ""]]

\* line 135-136: if scalar & 1: result += current
MulAdd ==
    /\ pc = "M_add"
    /\ mul.scalar # 0
    /\ IF mul.scalar % 2 = 1
       THEN LET r == Add(mul.result, mul.current)
            IN  /\ call' = [self |-> mul.result, other |-> mul.current, out |-> r]
                /\ IF Raised(r)
                   THEN /\ exc' = [r EXCEPT !.at = "add"]
                        /\ pc' = "raise"
                        /\ mul' = mul
                   ELSE /\ mul' = [mul EXCEPT !.result = r.val]
                        /\ pc' = "M_double"
                        /\ exc' = exc
       ELSE /\ pc' = "M_double"
            /\ UNCHANGED <<mul, call, exc>>
    /\ UNCHANGED <<lenstra, ret, harness, rho>>

\* lines 137-138: current += current; scalar >>= 1
MulDouble ==
    /\ pc = "M_double"
    /\ LET r == Add(mul.current, mul.current)
       IN  /\ call' = [self |-> mul.current, other |-> mul.current, out |-> r]
           /\ IF Raised(r)
              THEN /\ exc' = [r EXCEPT !.at = "double"]
                   /\ pc' = "raise"
                   /\ mul' = mul
              ELSE /\ mul' = [mul EXCEPT !.current = r.val,
                                         !.scalar = mul.scalar \div 2]
                   /\ pc' = "M_add"
                   /\ exc' = exc
    /\ UNCHANGED <<lenstra, ret, harness, rho>>

(* ------------------------------ Lenstra -------------------------------- *)
NoLenstra == [n |-> 0, B |-> 0, attempts |-> 0, attempt |-> 0,
              current |-> NoPoint, i |-> 0, muls |-> 0, den |-> 0, factor |-> 0]
NoRet == [none |-> TRUE, val |-> 0]
NoHarness == [p |-> NoPoint, q |-> NoPoint, r |-> NoPoint, k |-> 0,
              out1 |-> NoExc, out2 |-> NoExc]
NoRho == [n |-> 0, A |-> 0, B |-> 0, p |-> 0]

\* the inputs n: every n up to MaxN, and 15, the smallest n for which a chord
\* addition fails within the first multiplications of an attempt
LenstraNs == (2..MaxN) \cup {15}

LenstraInit ==
    /\ pc = "L_for"
    /\ \E n \in LenstraNs, B \in 1..MaxB, attempts \in 0..MaxAttempts :
          lenstra = [NoLenstra EXCEPT !.n = n, !.B = B, !.attempts = attempts]
    /\ mul = NoMul
    /\ call = NoCall
    /\ exc = NoExc
    /\ ret = NoRet
    /\ harness = NoHarness
    /\ rho = NoRho

\* lines 165-178: one pass of the attempt loop up to the inner loop
LenstraAttempt ==
    /\ pc = "L_for"
    /\ lenstra.attempt < lenstra.attempts
    /\ \E x \in 0..(lenstra.n - 1), y \in 0..(lenstra.n - 1), a \in 0..(lenstra.n - 1) :
          LET n == lenstra.n
              b == (((y * y) % n) - (((x * x * x) % n) + ((a * x) % n))) % n
              c == EllipticCurve(a, b, n)
              p == Point(c.val, x, y)
          IN  IF Raised(c)
              THEN /\ exc' = [c EXCEPT !.at = "curve"]
                   /\ pc' = "raise"
                   /\ lenstra' = lenstra
              ELSE IF Raised(p)
              THEN /\ exc' = [p EXCEPT !.at = "point"]
                   /\ pc' = "raise"
                   /\ lenstra' = lenstra
              ELSE /\ lenstra' = [lenstra EXCEPT !.current = p.val, !.i = 2, !.muls = 0]
                   /\ pc' = "L_inner"
                   /\ exc' = exc
    /\ call' = NoCall
    /\ UNCHANGED <<mul, ret, harness, rho>>

\* line 179-180: current = current * i, entering Point.__mul__
LenstraCallMul ==
    /\ pc = "L_inner"
    /\ lenstra.i <= lenstra.B
    /\ LET e == MulEnter(lenstra.current, lenstra.i)
       IN  IF e.done
           THEN /\ lenstra' = [lenstra EXCEPT !.current = e.out.val,
                                              !.i = lenstra.i + 1,
                                              !.muls = lenstra.muls + 1]
                /\ pc' = "L_inner"
                /\ mul' = mul
           ELSE /\ mul' = [e.frame EXCEPT !.caller = "Lenstra"]
                /\ pc' = "M_add"
                /\ lenstra' = lenstra
    /\ UNCHANGED <<call, exc, ret, harness, rho>>

\* line 140 / line 180: __mul__ returns result, assigned to current
LenstraMulReturn ==
    /\ pc = "M_add"
    /\ mul.scalar = 0
    /\ mul.caller = "Lenstra"
    /\ lenstra' = [lenstra EXCEPT !.current = mul.result,
                                  !.i = lenstra.i + 1,
                                  !.muls = lenstra.muls + 1]
    /\ pc' = "L_inner"
    /\ mul' = NoMul
    /\ UNCHANGED <<call, exc, ret, harness, rho>>

\* mutant of LenstraInnerDone: the attempt counter does not advance
LenstraInnerDone_noAdvance ==
    /\ pc = "L_inner"
    /\ lenstra.i > lenstra.B
    /\ lenstra' = [lenstra EXCEPT !.current = NoPoint, !.i = 0, !.muls = 0]
    /\ pc' = "L_for"
    /\ call' = NoCall
    /\ UNCHANGED <<mul, exc, ret, harness, rho>>

\* line 179: range(2, B + 1) is exhausted, the attempt ends without a factor.
\* current and i are dead until the next attempt assigns them again; their
\* stale values are cleared here and in the handler.
LenstraInnerDone ==
    /\ pc = "L_inner"
    /\ lenstra.i > lenstra.B
    /\ lenstra' = [lenstra EXCEPT !.attempt = lenstra.attempt + 1,
                                  !.current = NoPoint, !.i = 0, !.muls = 0]
    /\ pc' = "L_for"
    /\ call' = NoCall
    /\ UNCHANGED <<mul, exc, ret, harness, rho>>

\* lines 182-187: the ZeroDivisionError handler; the frame of __mul__ is
\* unwound and e is unbound when the except clause ends
LenstraHandler ==
    /\ pc = "raise"
    /\ mul.caller # "harness"
    /\ exc.type = "ZeroDivisionError"
    /\ LET den == Int_(SplitFirst(Str(exc.arg)))
           factor == gcd(den, lenstra.n)
       IN  IF 1 < factor /\ factor < lenstra.n
           THEN /\ lenstra' = [lenstra EXCEPT !.den = den, !.factor = factor]
                /\ ret' = [none |-> FALSE, val |-> factor]
                /\ pc' = "returned"
           ELSE /\ lenstra' = [lenstra EXCEPT !.den = den, !.factor = factor,
                                              !.attempt = lenstra.attempt + 1,
                                              !.current = NoPoint, !.i = 0,
                                              !.muls = 0]
                /\ ret' = ret
                /\ pc' = "L_for"
    /\ mul' = NoMul
    /\ exc' = NoExc
    /\ UNCHANGED <<call, harness, rho>>

\* line 182: any other exception is not caught and leaves Lenstra
LenstraPropagate ==
    /\ pc = "raise"
    /\ mul.caller # "harness"
    /\ exc.type # "ZeroDivisionError"
    /\ pc' = "escaped"
    /\ UNCHANGED <<lenstra, mul, call, exc, ret, harness, rho>>

\* line 189: return None
LenstraReturnNone ==
    /\ pc = "L_for"
    /\ lenstra.attempt >= lenstra.attempts
    /\ ret' = [none |-> TRUE, val |-> 0]
    /\ pc' = "returned"
    /\ UNCHANGED <<lenstra, mul, call, exc, harness, rho>>

LenstraNext ==
    \/ LenstraAttempt
    \/ LenstraCallMul
    \/ MulAdd
    \/ MulDouble
    \/ LenstraMulReturn
    \/ LenstraInnerDone
    \/ LenstraHandler
    \/ LenstraPropagate
    \/ LenstraReturnNone

Spec == LenstraInit /\ [][LenstraNext]_vars

(* ------------------- scalar multiplication, called directly ------------ *)
IsPrime(m) == m >= 2 /\ \A d \in 2..(m - 1) : m % d # 0

\* the curves EllipticCurve(a, b, m) accepts, for m in ms and a, b in [0, m)
AcceptedCurves(ms) ==
    UNION {{EllipticCurve(t[1], t[2], m).val :
               t \in {u \in (0..(m - 1)) \X (0..(m - 1)) :
                         ~Raised(EllipticCurve(u[1], u[2], m))}} : m \in ms}

\* the points Point accepts on curve c: infinity and the affine solutions
PointsOn(c) ==
    {Infinity(c)} \cup
    {Point(c, t[1], t[2]).val :
        t \in {u \in (0..(c.p - 1)) \X (0..(c.p - 1)) : ~Raised(Point(c, u[1], u[2]))}}

MulInit ==
    /\ pc = "H_call"
    /\ \E c \in AcceptedCurves(2..MaxMod) :
          \E p \in PointsOn(c), k \in (-MaxK)..MaxK :
             harness = [NoHarness EXCEPT !.p = p, !.k = k]
    /\ lenstra = NoLenstra
    /\ mul = NoMul
    /\ call = NoCall
    /\ exc = NoExc
    /\ ret = NoRet
    /\ rho = NoRho

\* p * k: entering Point.__mul__ (lines 118-133)
HarnessCallMul ==
    /\ pc = "H_call"
    /\ LET e == MulEnter(harness.p, harness.k)
       IN  IF e.done
           THEN /\ harness' = [harness EXCEPT !.out1 = e.out]
                /\ pc' = "H_done"
                /\ mul' = mul
           ELSE /\ mul' = [e.frame EXCEPT !.caller = "harness"]
                /\ pc' = "M_add"
                /\ harness' = harness
    /\ UNCHANGED <<lenstra, call, exc, ret, rho>>

\* line 140: return result
HarnessMulReturn ==
    /\ pc = "M_add"
    /\ mul.scalar = 0
    /\ mul.caller = "harness"
    /\ harness' = [harness EXCEPT !.out1 = Ok(mul.result)]
    /\ mul' = NoMul
    /\ pc' = "H_done"
    /\ UNCHANGED <<lenstra, call, exc, ret, rho>>

\* an exception of __add__ leaves __mul__ uncaught (no handler in lines 131-140)
HarnessMulRaise ==
    /\ pc = "raise"
    /\ mul.caller = "harness"
    /\ harness' = [harness EXCEPT !.out1 = exc]
    /\ mul' = NoMul
    /\ exc' = NoExc
    /\ pc' = "H_done"
    /\ UNCHANGED <<lenstra, call, ret, rho>>

MulNext ==
    \/ HarnessCallMul
    \/ MulAdd
    \/ MulDouble
    \/ HarnessMulReturn
    \/ HarnessMulRaise

MulSpec == MulInit /\ [][MulNext]_vars

(* -------------------------- the group law ------------------------------ *)
\* r1 + other, where r1 is the outcome of an earlier addition
AddThen(r1, other) == IF Raised(r1) THEN r1 ELSE Add(r1.val, other)

\* self + r2, where r2 is the outcome of an earlier addition
ThenAdd(self, r2) == IF Raised(r2) THEN r2 ELSE Add(self, r2.val)

AddInit ==
    /\ pc = "A_start"
    /\ \E c \in AcceptedCurves({m \in 2..MaxPrime : IsPrime(m)}) :
          \E p \in PointsOn(c), q \in PointsOn(c), r \in PointsOn(c) :
             harness = [NoHarness EXCEPT !.p = p, !.q = q, !.r = r]
    /\ lenstra = NoLenstra
    /\ mul = NoMul
    /\ call = NoCall
    /\ exc = NoExc
    /\ ret = NoRet
    /\ rho = NoRho

\* p + q and q + p
HarnessAddPair ==
    /\ pc = "A_start"
    /\ harness' = [harness EXCEPT !.out1 = Add(harness.p, harness.q),
                                  !.out2 = Add(harness.q, harness.p)]
    /\ pc' = "A_pair"
    /\ UNCHANGED <<lenstra, mul, call, exc, ret, rho>>

\* (p + q) + r and p + (q + r)
HarnessAddTriple ==
    /\ pc = "A_pair"
    /\ harness' = [harness EXCEPT
          !.out1 = AddThen(Add(harness.p, harness.q), harness.r),
          !.out2 = ThenAdd(harness.p, Add(harness.q, harness.r))]
    /\ pc' = "A_triple"
    /\ UNCHANGED <<lenstra, mul, call, exc, ret, rho>>

AddNext ==
    \/ HarnessAddPair
    \/ HarnessAddTriple

AddSpec == AddInit /\ [][AddNext]_vars

(* ----------------------- operands of two curves ------------------------ *)
MixedInit ==
    /\ pc = "X_start"
    /\ \E c1 \in AcceptedCurves(2..MaxMismatch), c2 \in AcceptedCurves(2..MaxMismatch) :
          \E p \in PointsOn(c1), q \in PointsOn(c2) :
             harness = [NoHarness EXCEPT !.p = p, !.q = q]
    /\ lenstra = NoLenstra
    /\ mul = NoMul
    /\ call = NoCall
    /\ exc = NoExc
    /\ ret = NoRet
    /\ rho = NoRho

\* p + q for p and q of any two curves
HarnessAddMixed ==
    /\ pc = "X_start"
    /\ harness' = [harness EXCEPT !.out1 = Add(harness.p, harness.q)]
    /\ pc' = "X_done"
    /\ UNCHANGED <<lenstra, mul, call, exc, ret, rho>>

MixedNext == HarnessAddMixed

MixedSpec == MixedInit /\ [][MixedNext]_vars

(* ----------------------------- pollardRho ------------------------------ *)
RhoInit ==
    /\ pc = "R_start"
    /\ \E n \in 2..MaxRhoN : rho = [NoRho EXCEPT !.n = n]
    /\ lenstra = NoLenstra
    /\ mul = NoMul
    /\ call = NoCall
    /\ exc = NoExc
    /\ ret = NoRet
    /\ harness = NoHarness

\* line 154: randrange(start=2, stop=n-1, step=1) draws from [2, n-1) and
\* raises ValueError when that range is empty
RhoSeed ==
    /\ pc = "R_start"
    /\ IF 2..(rho.n - 2) = {}
       THEN /\ exc' = Raise("ValueError", 0, "empty range for randrange()")
            /\ pc' = "R_raised"
            /\ rho' = rho
       ELSE /\ \E seed \in 2..(rho.n - 2) : rho' = [rho EXCEPT !.A = seed, !.B = seed]
            /\ pc' = "R_loop"
            /\ exc' = exc
    /\ UNCHANGED <<lenstra, mul, call, ret, harness>>

\* lines 155-161: one pass of the Floyd loop
RhoStep ==
    /\ pc = "R_loop"
    /\ LET n == rho.n
           A == (rho.A * rho.A + 1) % n
           B1 == (rho.B * rho.B + 1) % n
           B == (B1 * B1 + 1) % n
           p == gcd(A - B, n)
       IN  /\ rho' = [rho EXCEPT !.A = A, !.B = B, !.p = p]
           /\ IF 1 < p /\ p < n
              THEN ret' = [none |-> FALSE, val |-> p] /\ pc' = "R_returned"
              ELSE IF p = n
              THEN ret' = [none |-> FALSE, val |-> n] /\ pc' = "R_returned"
              ELSE ret' = ret /\ pc' = "R_loop"
    /\ UNCHANGED <<lenstra, mul, call, exc, harness>>

RhoNext ==
    \/ RhoSeed
    \/ RhoStep

RhoSpec == RhoInit /\ [][RhoNext]_vars

(* ======================= claims about Lenstra ========================== *)
\* the curve equation y^2 = x^3 + a*x + b (mod p), stated directly
SatisfiesEquation(pt) ==
    pt.inf \/ ((pt.y * pt.y) - (pt.x * pt.x * pt.x + pt.curve.a * pt.x + pt.curve.b))
                 % pt.curve.p = 0

\* the denominator of the slope of add(p, q), as mathematics defines it
SlopeDen(p, q) ==
    IF Eq(p, q) THEN (2 * p.y) % p.curve.p ELSE (q.x - p.x) % p.curve.p

\* the last __add__ call had two affine operands that do not cancel
AffineCall ==
    /\ ~call.self.inf
    /\ ~call.other.inf
    /\ ~Eq(call.self, Neg(call.other).val)

\* C1: whenever Lenstra returns a value d other than None, d is a non-trivial
\* divisor of n: 1 < d < n and n mod d = 0.
C1_ReturnedIsDivisor ==
    (pc = "returned" /\ ~ret.none) =>
        /\ 1 < ret.val
        /\ ret.val < lenstra.n
        /\ lenstra.n % ret.val = 0

C1_Witness == pc = "returned" /\ ~ret.none /\ lenstra.attempt = 1

\* C2: an add of two affine, non-cancelling points raises ZeroDivisionError
\* exactly when the slope denominator has no inverse modulo n, the exception
\* carries that denominator, and the handler of Lenstra takes the gcd of that
\* same denominator and n.
C2_DenominatorReachesHandler ==
    AffineCall =>
        LET den == SlopeDen(call.self, call.other)
        IN  /\ Raised(call.out) <=> gcd(den, lenstra.n) # 1
            /\ Raised(call.out) =>
                  /\ call.out.type = "ZeroDivisionError"
                  /\ call.out.arg = den
            /\ pc = "raise" => (exc.type = "ZeroDivisionError" /\ exc.arg = den)
            /\ (Raised(call.out) /\ pc \in {"L_for", "returned"}) =>
                  /\ lenstra.den = den
                  /\ lenstra.factor = gcd(den, lenstra.n)

C2_Witness ==
    /\ AffineCall
    /\ ~Eq(call.self, call.other)
    /\ pc = "returned"
    /\ ~ret.none
    /\ ret.val = gcd(SlopeDen(call.self, call.other), lenstra.n)
    /\ lenstra.den >= 2

\* C3: a singular curve at construction makes Lenstra abandon the attempt;
\* the singular-curve failure never escapes Lenstra.
C3_SingularNeverEscapes ==
    pc = "escaped" => exc.at # "curve"

\* C8: Lenstra terminates (every step lowers a non-negative bound on the steps
\* left, and a step is possible until Lenstra has returned or an exception
\* has left it); it starts at most `attempts` attempts of at most
\* B-1 scalar multiplications each, returns at the first failure with
\* 1 < gcd(den, n) < n, abandons an attempt whose failure gives gcd in {1, n}
\* or whose inner loop completes, and returns None exactly when all attempts
\* were abandoned.
C8_Bounded ==
    /\ lenstra.attempt <= lenstra.attempts
    /\ pc \in {"L_inner", "M_add", "M_double", "raise"} =>
          lenstra.attempt < lenstra.attempts
    /\ lenstra.muls <= lenstra.B - 1
    /\ pc \in {"M_add", "M_double"} => lenstra.muls < lenstra.B - 1
    /\ pc = "returned" => (ret.none <=> lenstra.attempt = lenstra.attempts)

C8_Step ==
    /\ (pc = "raise" /\ exc.type = "ZeroDivisionError") =>
          LET g == gcd(exc.arg, lenstra.n)
          IN  IF 1 < g /\ g < lenstra.n
              THEN pc' = "returned" /\ ret' = [none |-> FALSE, val |-> g]
              ELSE /\ pc' = "L_for"
                   /\ lenstra'.attempt = lenstra.attempt + 1
                   /\ ret' = ret
    /\ (pc = "L_inner" /\ lenstra.i > lenstra.B) =>
          (pc' = "L_for" /\ lenstra'.attempt = lenstra.attempt + 1 /\ ret' = ret)

\* number of bits of a positive scalar
RECURSIVE BitLength(_)
BitLength(v) == IF v = 0 THEN 0 ELSE 1 + BitLength(v \div 2)

\* an upper bound on the number of steps Lenstra still takes: attempts left,
\* then multiplications left in the attempt, then bits left in the scalar
C8_PerMul == 2 * lenstra.B + 2
C8_PerAttempt == (lenstra.B + 1) * C8_PerMul + 4
C8_Inner(i) == (lenstra.B + 1 - i) * C8_PerMul + 2
C8_Within ==
    CASE pc = "L_for" -> C8_PerAttempt - 1
      [] pc = "L_inner" -> C8_Inner(lenstra.i)
      [] pc = "M_add" -> C8_Inner(lenstra.i + 1) + 2 * BitLength(mul.scalar) + 1
      [] pc = "M_double" -> C8_Inner(lenstra.i + 1) + 2 * BitLength(mul.scalar)
      [] pc = "raise" -> 1
      [] OTHER -> 0
C8_Measure ==
    IF pc \in {"returned", "escaped"} THEN 0
    ELSE (lenstra.attempts - lenstra.attempt) * C8_PerAttempt + C8_Within

\* the guards of the actions of LenstraNext: some step is possible
C8_CanStep ==
    \/ pc = "L_for" /\ lenstra.attempt < lenstra.attempts /\ lenstra.n >= 1
    \/ pc = "L_for" /\ lenstra.attempt >= lenstra.attempts
    \/ pc = "L_inner"
    \/ pc = "M_add" /\ (mul.scalar # 0 \/ mul.caller = "Lenstra")
    \/ pc = "M_double"
    \/ pc = "raise"

C9_PointsStayOnCurve ==
    /\ SatisfiesEquation(lenstra.current)
    /\ SatisfiesEquation(mul.result)
    /\ SatisfiesEquation(mul.current)
    /\ call.out.type = "ok" => SatisfiesEquation(call.out.val)
    /\ pc \in {"L_inner", "M_add", "M_double"} =>
          /\ ~lenstra.current.inf => lenstra.current.curve.p = lenstra.n
          /\ ~mul.current.inf => mul.current.curve.p = lenstra.n
    /\ exc.msg # NotOnCurveMsg
    /\ call.out.msg # NotOnCurveMsg

C9_Witness ==
    /\ AffineCall
    /\ call.out.type = "ok"
    /\ ~call.out.val.inf
    /\ lenstra.n = 15
    /\ ~Eq(call.self, call.other)
    /\ pc = "M_double"

(* =============== claims about the group law and __mul__ ================ *)
\* C4 (as claimed): on every accepted curve of prime modulus, add is
\* commutative and associative on valid points, and no call raises.
C4_GroupLawEveryPrime ==
    pc \in {"A_pair", "A_triple"} =>
        /\ harness.out1.type = "ok"
        /\ harness.out2.type = "ok"
        /\ Eq(harness.out1.val, harness.out2.val)

\* C4 (amended): on every accepted curve of odd prime modulus, add is
\* commutative and associative on valid points, and no call raises.
C4_GroupLawOddPrime ==
    (pc \in {"A_pair", "A_triple"} /\ harness.p.curve.p > 2) =>
        /\ harness.out1.type = "ok"
        /\ harness.out2.type = "ok"
        /\ Eq(harness.out1.val, harness.out2.val)

C4_Witness ==
    /\ pc = "A_triple"
    /\ harness.p.curve.p = 5
    /\ ~harness.p.inf /\ ~harness.q.inf /\ ~harness.r.inf
    /\ ~Eq(harness.p, harness.q) /\ ~Eq(harness.q, harness.r)
    /\ harness.out1.type = "ok"
    /\ ~harness.out1.val.inf

\* p added to itself k times, starting from infinity
RECURSIVE RepeatAdd(_, _)
RepeatAdd(p, k) ==
    IF k = 0 THEN Ok(Infinity(p.curve)) ELSE AddThen(RepeatAdd(p, k - 1), p)

\* the reference result of scalarMultiply(p, k) by repeated add
Reference(p, k) ==
    IF k >= 0 THEN RepeatAdd(p, k)
    ELSE LET r == RepeatAdd(p, -k) IN IF Raised(r) THEN r ELSE Neg(r.val)

\* C5: on a prime-modulus curve p * k equals the result of repeated add:
\* infinity for k = 0, p added k times for k > 0, and the negation of the
\* result for -k when k < 0 (checked for every k in -MaxK..MaxK).
C5_MulMatchesRepeatedAdd ==
    (pc = "H_done" /\ IsPrime(harness.p.curve.p)) =>
        /\ harness.out1.type = "ok"
        /\ Reference(harness.p, harness.k).type = "ok"
        /\ Eq(harness.out1.val, Reference(harness.p, harness.k).val)

C5_Witness ==
    /\ pc = "H_done"
    /\ harness.p.curve.p = 5
    /\ harness.k = -19
    /\ harness.out1.type = "ok"
    /\ ~harness.out1.val.inf
    /\ ~Eq(harness.out1.val, harness.p)

\* C6: add of two points whose curves differ in a, b or the modulus always
\* fails with the curve-mismatch error.
C6_MismatchAlwaysFails ==
    (pc = "X_done" /\ harness.p.curve # harness.q.curve) =>
        harness.out1.type = "TypeError"

\* C10: p * k for k >= 1 and affine p performs only the additions and
\* doublings the binary expansion of k needs, so the doubling beyond the top
\* bit of k never makes it fail; in particular p * 1 returns p.
C10_OnlyNeededSteps ==
    /\ (pc = "raise" /\ mul.caller = "harness" /\ harness.k >= 1) =>
          ~(exc.at = "double" /\ mul.scalar = 1)
    /\ (pc = "H_done" /\ harness.k = 1 /\ ~harness.p.inf) =>
          (harness.out1.type = "ok" /\ Eq(harness.out1.val, harness.p))

(* ===================== claims about pollardRho ========================= *)
\* C7: for every n >= 2 and every seed pollardRho ends by returning the first
\* d = gcd(A - B, n) > 1 of the sequence, a divisor of n with 1 < d <= n; it
\* never ends any other way.
C7_RhoReturnsDivisor ==
    /\ pc # "R_raised"
    /\ pc = "R_returned" =>
          /\ ret.val = rho.p
          /\ 1 < ret.val
          /\ ret.val <= rho.n
          /\ rho.n % ret.val = 0

====
